---- MODULE Spec2Model ----
(***************************************************************************)
(* Model of the container launcher (package main: loadConfig, setEnv,      *)
(* setLayers, mountBaseFs, mountVolume, chroot, runInNamespace,            *)
(* childProcess, main).                                                    *)
(*                                                                         *)
(* A Go string is a sequence of tokens; a token is a TLA+ string that is   *)
(* never looked into.  Environment entries and digests are sequences of    *)
(* one-character tokens, so that SplitN / Split work on characters.  A     *)
(* path is a sequence of tokens too: the fixed paths are one token each,   *)
(* "/" is the separator token.                                             *)
(***************************************************************************)
EXTENDS Integers, Sequences, FiniteSets, TLC

\* ------------------------------------------------------------------ bounds
MaxEnv == 2
MaxEntryLen == 3
MaxLayers == 2
MaxDigestLen == 2
MaxTrailing == 5

\* the characters environment entries and digests are made of
EnvChars == {"=", "K"}
DigestChars == {":", "a"}

\* --------------------------------------------------------- string helpers
SeqsUpTo(S, n) == UNION {[1..k -> S] : k \in 0..n}

Range(s) == {s[i] : i \in 1..Len(s)}

\* index of the first occurrence of the token c in s, 0 when absent
IndexOf(s, c) ==
    IF \E i \in 1..Len(s) : s[i] = c
    THEN CHOOSE i \in 1..Len(s) : s[i] = c /\ \A j \in 1..(i - 1) : s[j] # c
    ELSE 0

\* strings.SplitN(e, "=", 2)
SplitN2(e, sep) ==
    LET i == IndexOf(e, sep)
    IN  IF i = 0 THEN <<e>>
        ELSE <<SubSeq(e, 1, i - 1), SubSeq(e, i + 1, Len(e))>>

\* strings.Split(s, sep): every separator cuts
RECURSIVE Split(_, _)
Split(s, sep) ==
    LET i == IndexOf(s, sep)
    IN  IF i = 0 THEN <<s>>
        ELSE <<SubSeq(s, 1, i - 1)>> \o Split(SubSeq(s, i + 1, Len(s)), sep)

\* strings.Join(parts, sep)
RECURSIVE StringsJoin(_, _)
StringsJoin(parts, sep) ==
    IF Len(parts) = 0 THEN <<>>
    ELSE IF Len(parts) = 1 THEN parts[1]
    ELSE parts[1] \o <<sep>> \o StringsJoin(Tail(parts), sep)

\* filepath.Join(a, b): empty elements are dropped, the rest are joined with
\* the separator.  The final Clean leaves the modelled paths as they are: no
\* element holds ".", ".." or a separator of its own.
Join(a, b) ==
    IF a = <<>> THEN b
    ELSE IF b = <<>> THEN a
    ELSE a \o <<"/">> \o b

\* the directory p and the directories above it (os.MkdirAll creates them)
WithParents(p) ==
    {SubSeq(p, 1, n) : n \in {m \in 1..Len(p) : m = Len(p) \/ p[m + 1] = "/"}}

\* p lies strictly below the directory d
IsUnder(p, d) ==
    /\ Len(p) > Len(d) + 1
    /\ SubSeq(p, 1, Len(d)) = d
    /\ p[Len(d) + 1] = "/"

\* --------------------------------------------------- program constants
Sentinel == <<"child">>
configPath == <<"/tmp/proxy_pool/config.json">>
manifestPath == <<"/tmp/proxy_pool/manifest.json">>
baseDirPath == <<"/tmp/proxy_pool/overlay">>
volumeDirPath == <<"/tmp/proxy_pool/volume">>
LayersRoot == <<"/tmp/proxy_pool/layers">>
Cloneflags == {"CLONE_NEWUTS", "CLONE_NEWIPC", "CLONE_NEWNET", "CLONE_NEWNS", "CLONE_NEWPID"}

\* the process that was invoked, and the child it may start
Top == "top"
Sub == "sub"
Procs == {Top, Sub}

VARIABLES
    osArgs,        \* osArgs[p]: os.Args of process p (<<>> while p is not started)
    configFile,    \* what the config descriptor decodes to: [ok, Env]
    manifestFile,  \* what the manifest descriptor decodes to: [ok, Layers]
    dirs,          \* the directories that exist, as seen by the running process
    env,           \* the process environment of the process running the pipeline
    ops,           \* every mount, pivot_root and umount issued, with its outcome
    spawns,        \* every child process started by runInNamespace
    pc,            \* pc[p]: the statement process p is at
    exit,          \* exit[p]: exit status of p (-1 while it has not exited)
    envVars,       \* setEnv: the list being applied
    idx,           \* setEnv: index of the entry the loop is at
    j,             \* prepareDirs: index of the directory the loop is at
    layers,        \* setLayers: the decoded layer list
    lowerDirs,     \* setLayers: lowerDirs
    prepareErr,    \* the value prepareDirs returned ("" is nil)
    statErr,       \* mountVolume: what os.Stat returned ("" is nil)
    k,             \* mountBaseFs: number of pseudo-filesystem mounts issued
    cwd,           \* working directory after a successful os.Chdir (<<>> before)
    shell,         \* /bin/sh: "none", "running", "ok" (exit 0), "err"
    failed,        \* the stage whose error childProcess logged ("" if none)
    perr           \* the error the parent logged ("" if none)

vars == <<osArgs, configFile, manifestFile, dirs, env, ops, spawns, pc, exit,
          envVars, idx, j, layers, lowerDirs, prepareErr, statErr, k, cwd,
          shell, failed, perr>>

inputs == <<configFile, manifestFile>>
locals == <<envVars, idx, j, layers, lowerDirs, prepareErr, statErr, k>>

\* ---------------------------------------------------------------- inputs
EnvEntries == SeqsUpTo(EnvChars, MaxEntryLen)
EnvLists == SeqsUpTo(EnvEntries, MaxEnv)
Digests == SeqsUpTo(DigestChars, MaxDigestLen)
LayerLists == SeqsUpTo(Digests, MaxLayers)

NoFile == [ok |-> FALSE, val |-> <<>>]
File(v) == [ok |-> TRUE, val |-> v]

GoodConfig == File(<< <<"K", "=", "K">> >>)
GoodManifest == File(<< <<"a", ":", "a">>, <<":", "a", "a">> >>)
SampleConfigs ==
    {NoFile, GoodConfig, File(<< <<"K", "=", "K">>, <<"K">> >>)}
SampleManifests ==
    {NoFile, GoodManifest, File(<<>>), File(<< <<"a">> >>)}

\* the arguments after the program name: none, a word that is not the
\* sentinel, or the sentinel followed by n arguments
StdArgs == <<configPath, manifestPath, baseDirPath, volumeDirPath>>
Trailing(n) == [i \in 1..n |-> IF i <= 4 THEN StdArgs[i] ELSE <<"extra">>]
Invocations ==
    {<< <<"prog">> >>, << <<"prog">>, <<"run">> >>}
        \cup {<< <<"prog">>, Sentinel >> \o Trailing(n) : n \in 0..MaxTrailing}
DirectChild == << <<"prog">>, Sentinel >> \o Trailing(4)

\* the disk before the run: nothing there, or what an earlier run left
Leftover ==
    {baseDirPath, Join(baseDirPath, <<"upper">>), Join(baseDirPath, <<"work">>),
     Join(baseDirPath, <<"merged">>)}
Disks == {{}, {volumeDirPath}, Leftover, Leftover \cup {volumeDirPath}}

InheritedEnv == [key \in {<<"K">>} |-> <<"o", "l", "d">>]

\* The runs explored: every invocation on every disk with the sample
\* descriptors, and the direct child invocation with every environment list
\* and with every layer list within the bounds.
InitInputs ==
    \/ \E a \in Invocations, d \in Disks, c \in SampleConfigs, m \in SampleManifests :
          /\ osArgs = [p \in Procs |-> IF p = Top THEN a ELSE <<>>]
          /\ dirs = d
          /\ configFile = c
          /\ manifestFile = m
    \/ \E l \in EnvLists :
          /\ osArgs = [p \in Procs |-> IF p = Top THEN DirectChild ELSE <<>>]
          /\ dirs = {volumeDirPath}
          /\ configFile = File(l)
          /\ manifestFile = GoodManifest
    \/ \E l \in LayerLists :
          /\ osArgs = [p \in Procs |-> IF p = Top THEN DirectChild ELSE <<>>]
          /\ dirs = {volumeDirPath}
          /\ configFile = GoodConfig
          /\ manifestFile = File(l)

Init ==
    /\ InitInputs
    /\ env = InheritedEnv
    /\ ops = <<>>
    /\ spawns = <<>>
    /\ pc = [p \in Procs |-> IF p = Top THEN "main" ELSE "unborn"]
    /\ exit = [p \in Procs |-> -1]
    /\ envVars = <<>>
    /\ idx = 0
    /\ j = 0
    /\ layers = <<>>
    /\ lowerDirs = <<>>
    /\ prepareErr = ""
    /\ statErr = ""
    /\ k = 0
    /\ cwd = <<>>
    /\ shell = "none"
    /\ failed = ""
    /\ perr = ""

\* ------------------------------------------------------- shared pieces
\* the positional arguments of the child (main: os.Args[2..5])
ConfigArg(p) == osArgs[p][3]
ManifestArg(p) == osArgs[p][4]
BaseDir(p) == osArgs[p][5]
VolumeDir(p) == osArgs[p][6]
TargetDir(p) == Join(BaseDir(p), <<"merged">>)
UpperDir(p) == Join(BaseDir(p), <<"upper">>)
WorkDir(p) == Join(BaseDir(p), <<"work">>)

\* an external command or syscall on the mount table, and how it ended
Issue(p, cmd, ok) == ops' = Append(ops, [proc |-> p, cmd |-> cmd, ok |-> ok])

Goto(p, label) == pc' = [pc EXCEPT ![p] = label]

\* the process returns from main (or calls os.Exit) with this status
ExitWith(p, status) ==
    /\ pc' = [pc EXCEPT ![p] = "exited"]
    /\ exit' = [exit EXCEPT ![p] = status]

\* childProcess prints the stage's error and returns; main returns after it
\* a variant in which a failed stage ends the process with status 1
StageFailsExitsOne(p, stage) ==
    /\ failed' = stage
    /\ ExitWith(p, 1)

StageFails(p, stage) ==
    /\ failed' = stage
    /\ ExitWith(p, 0)

\* os.MkdirAll(d): nothing to do when d is there, otherwise it may fail
MkdirAllOutcomes(d) == IF d \in dirs THEN {TRUE} ELSE {TRUE, FALSE}

\* ------------------------------------------------------------------ main
\* a variant that only asks for at least six os.Args
MainAtLeastSix(p) ==
    /\ pc[p] = "main"
    /\ IF Len(osArgs[p]) > 1 /\ osArgs[p][2] = Sentinel
       THEN IF Len(osArgs[p]) < 6
            THEN ExitWith(p, 1)
            ELSE Goto(p, "mountRecPrivate") /\ UNCHANGED exit
       ELSE Goto(p, "MkdirAll") /\ UNCHANGED exit
    /\ UNCHANGED <<osArgs, inputs, dirs, env, ops, spawns, locals, cwd, shell, failed, perr>>

\* main, lines 323-337: the child path needs exactly six os.Args
Main(p) ==
    /\ pc[p] = "main"
    /\ IF Len(osArgs[p]) > 1 /\ osArgs[p][2] = Sentinel
       THEN IF Len(osArgs[p]) # 6
            THEN ExitWith(p, 1)
            ELSE Goto(p, "mountRecPrivate") /\ UNCHANGED exit
       ELSE Goto(p, "MkdirAll") /\ UNCHANGED exit
    /\ UNCHANGED <<osArgs, inputs, dirs, env, ops, spawns, locals, cwd, shell, failed, perr>>

\* main, lines 339-343
ParentMkdirAll(p) ==
    /\ pc[p] = "MkdirAll"
    /\ \E ok \in MkdirAllOutcomes(volumeDirPath) :
          IF ok
          THEN /\ dirs' = dirs \cup WithParents(volumeDirPath)
               /\ Goto(p, "runInNamespace")
               /\ UNCHANGED <<exit, perr>>
          ELSE /\ perr' = "MkdirAll"
               /\ ExitWith(p, 0)
               /\ UNCHANGED dirs
    /\ UNCHANGED <<osArgs, inputs, env, ops, spawns, locals, cwd, shell, failed>>

\* a variant that passes the volume directory before the base directory
ChildArgvVolumeFirst == <<Sentinel, configPath, manifestPath, volumeDirPath, baseDirPath>>

\* runInNamespace, line 258: the arguments of the child
ChildArgv == <<Sentinel, configPath, manifestPath, baseDirPath, volumeDirPath>>

\* runInNamespace, lines 257-272: cmd.Run starts the child, or fails to
RunInNamespace(p) ==
    /\ pc[p] = "runInNamespace"
    /\ \E started \in BOOLEAN :
          IF started
          THEN /\ spawns' = Append(spawns, [by |-> p, path |-> <<"/proc/self/exe">>,
                                             args |-> ChildArgv, flags |-> Cloneflags])
               /\ osArgs' = [osArgs EXCEPT ![Sub] = << <<"/proc/self/exe">> >> \o ChildArgv]
               /\ pc' = [pc EXCEPT ![p] = "Wait", ![Sub] = "main"]
               /\ UNCHANGED <<exit, perr>>
          ELSE /\ perr' = "runInNamespace"
               /\ ExitWith(p, 0)
               /\ UNCHANGED <<spawns, osArgs>>
    /\ UNCHANGED <<inputs, dirs, env, ops, locals, cwd, shell, failed>>

\* a variant in which the parent does not wait for the child
ParentWaitNoBlock(p) ==
    /\ pc[p] = "Wait"
    /\ perr' = IF exit[Sub] > 0 THEN "runInNamespace" ELSE ""
    /\ ExitWith(p, 0)
    /\ UNCHANGED <<osArgs, inputs, dirs, env, ops, spawns, locals, cwd, shell, failed>>

\* cmd.Run waits for the child; main, lines 346-350
ParentWait(p) ==
    /\ pc[p] = "Wait"
    /\ pc[Sub] = "exited"
    /\ perr' = IF exit[Sub] # 0 THEN "runInNamespace" ELSE ""
    /\ ExitWith(p, 0)
    /\ UNCHANGED <<osArgs, inputs, dirs, env, ops, spawns, locals, cwd, shell, failed>>

\* ---------------------------------------------------------- childProcess
MountRecPrivateCmd == << <<"mount">>, <<"--make-rprivate">>, <<"/">> >>

\* a variant that does not check the result of make-rprivate
MountRecPrivateGoesOn(p) ==
    /\ pc[p] = "mountRecPrivate"
    /\ \E ok \in BOOLEAN :
          /\ Issue(p, MountRecPrivateCmd, ok)
          /\ Goto(p, "setEnv")
    /\ UNCHANGED <<osArgs, inputs, dirs, env, spawns, locals, cwd, shell, perr, exit, failed>>

\* mountRecPrivate, lines 70-78, and childProcess, lines 277-281
MountRecPrivate(p) ==
    /\ pc[p] = "mountRecPrivate"
    /\ \E ok \in BOOLEAN :
          /\ Issue(p, MountRecPrivateCmd, ok)
          /\ IF ok
             THEN Goto(p, "setEnv") /\ UNCHANGED <<exit, failed>>
             ELSE StageFails(p, "mountRecPrivate")
    /\ UNCHANGED <<osArgs, inputs, dirs, env, spawns, locals, cwd, shell, perr>>

\* setEnv, lines 83-87: loadConfig fails, or gives the list to apply
SetEnvLoad(p) ==
    /\ pc[p] = "setEnv"
    /\ IF configFile.ok
       THEN /\ envVars' = configFile.val
            /\ idx' = 1
            /\ Goto(p, "setEnvLoop")
            /\ UNCHANGED <<exit, failed>>
       ELSE /\ StageFails(p, "setEnv")
            /\ UNCHANGED <<envVars, idx>>
    /\ UNCHANGED <<osArgs, inputs, dirs, env, ops, spawns, j, layers, lowerDirs,
                   prepareErr, statErr, k, cwd, shell, perr>>

\* a variant that splits an entry at every '='
EntryPartsSplitAll(e) == Split(e, "=")

\* strings.SplitN(e, "=", 2), line 89
EntryParts(e) == SplitN2(e, "=")

\* os.Setenv rejects an empty key and a key holding '=' (EINVAL)
SetenvFails(key, value) == key = <<>> \/ "=" \in Range(key)

\* the environment after os.Setenv(key, value)
Setenv(e, key, value) ==
    [x \in DOMAIN e \cup {key} |-> IF x = key THEN value ELSE e[x]]

\* a variant that puts the inherited environment back when an entry is bad
SetEnvLoopRollsBack(p) ==
    /\ pc[p] = "setEnvLoop"
    /\ IF idx > Len(envVars)
       THEN /\ Goto(p, "setLayers")
            /\ UNCHANGED <<env, idx, exit, failed>>
       ELSE LET parts == EntryParts(envVars[idx])
            IN  IF Len(parts) # 2 \/ SetenvFails(parts[1], parts[2])
                THEN /\ StageFails(p, "setEnv")
                     /\ env' = InheritedEnv
                     /\ UNCHANGED idx
                ELSE /\ env' = Setenv(env, parts[1], parts[2])
                     /\ idx' = idx + 1
                     /\ UNCHANGED <<pc, exit, failed>>
    /\ UNCHANGED <<osArgs, inputs, dirs, ops, spawns, envVars, j, layers, lowerDirs,
                   prepareErr, statErr, k, cwd, shell, perr>>

\* setEnv, lines 88-98: one turn of the loop, or the return after the last
SetEnvLoop(p) ==
    /\ pc[p] = "setEnvLoop"
    /\ IF idx > Len(envVars)
       THEN /\ Goto(p, "setLayers")
            /\ UNCHANGED <<env, idx, exit, failed>>
       ELSE LET parts == EntryParts(envVars[idx])
            IN  IF Len(parts) # 2 \/ SetenvFails(parts[1], parts[2])
                THEN /\ StageFails(p, "setEnv")
                     /\ UNCHANGED <<env, idx>>
                ELSE /\ env' = Setenv(env, parts[1], parts[2])
                     /\ idx' = idx + 1
                     /\ UNCHANGED <<pc, exit, failed>>
    /\ UNCHANGED <<osArgs, inputs, dirs, ops, spawns, envVars, j, layers, lowerDirs,
                   prepareErr, statErr, k, cwd, shell, perr>>

\* a variant of setLayers that makes the base directory before it loads
SetLayersLoadLate(p) ==
    /\ pc[p] = "setLayers"
    /\ dirs' = dirs \cup {BaseDir(p)}
    /\ IF manifestFile.ok
       THEN /\ layers' = manifestFile.val
            /\ Goto(p, "prepareDirs")
            /\ UNCHANGED <<exit, failed>>
       ELSE /\ StageFails(p, "setLayers")
            /\ UNCHANGED layers
    /\ UNCHANGED <<osArgs, inputs, env, ops, spawns, envVars, idx, j, lowerDirs,
                   prepareErr, statErr, k, cwd, shell, perr>>

\* setLayers, lines 132-135: loadManifest fails, or gives the layers
SetLayersLoad(p) ==
    /\ pc[p] = "setLayers"
    /\ IF manifestFile.ok
       THEN /\ layers' = manifestFile.val
            /\ Goto(p, "prepareDirs")
            /\ UNCHANGED <<exit, failed>>
       ELSE /\ StageFails(p, "setLayers")
            /\ UNCHANGED layers
    /\ UNCHANGED <<osArgs, inputs, dirs, env, ops, spawns, envVars, idx, j, lowerDirs,
                   prepareErr, statErr, k, cwd, shell, perr>>

\* prepareDirs, lines 112-115.  setLayers drops the error prepareDirs returns
\* (line 140), so after a failure it goes on to build lowerDirs all the same.
PrepareDirsBase(p) ==
    /\ pc[p] = "prepareDirs"
    /\ \E ok \in MkdirAllOutcomes(BaseDir(p)) :
          IF ok
          THEN /\ dirs' = dirs \cup WithParents(BaseDir(p))
               /\ Goto(p, "mountTmpfs")
               /\ UNCHANGED prepareErr
          ELSE /\ prepareErr' = "MkdirAll"
               /\ Goto(p, "lowerDirs")
               /\ UNCHANGED dirs
    /\ UNCHANGED <<osArgs, inputs, env, ops, spawns, envVars, idx, j, layers, lowerDirs,
                   statErr, k, cwd, shell, exit, failed, perr>>

MountTmpfsCmd(targetDir) ==
    << <<"mount">>, <<"-t">>, <<"tmpfs">>, <<"tmpfs">>, targetDir >>

\* mountTmpfs, lines 101-109, and prepareDirs, lines 116-120: a fresh tmpfs
\* on the base directory hides what was below it
MountTmpfs(p) ==
    /\ pc[p] = "mountTmpfs"
    /\ \E ok \in BOOLEAN :
          /\ Issue(p, MountTmpfsCmd(BaseDir(p)), ok)
          /\ IF ok
             THEN /\ dirs' = {d \in dirs : ~IsUnder(d, BaseDir(p))}
                  /\ j' = 1
                  /\ Goto(p, "prepareDirsLoop")
                  /\ UNCHANGED prepareErr
             ELSE /\ prepareErr' = "mountTmpfs"
                  /\ Goto(p, "lowerDirs")
                  /\ UNCHANGED <<dirs, j>>
    /\ UNCHANGED <<osArgs, inputs, env, spawns, envVars, idx, layers, lowerDirs,
                   statErr, k, cwd, shell, exit, failed, perr>>

\* setLayers, line 140: the directories prepareDirs is asked to make
DirsToMake(p) == <<UpperDir(p), WorkDir(p), TargetDir(p)>>

\* prepareDirs, lines 121-127: one turn of the loop
PrepareDirsLoop(p) ==
    /\ pc[p] = "prepareDirsLoop"
    /\ \E ok \in MkdirAllOutcomes(DirsToMake(p)[j]) :
          IF ok
          THEN /\ dirs' = dirs \cup WithParents(DirsToMake(p)[j])
               /\ j' = j + 1
               /\ Goto(p, IF j = Len(DirsToMake(p)) THEN "lowerDirs" ELSE "prepareDirsLoop")
               /\ UNCHANGED prepareErr
          ELSE /\ prepareErr' = "MkdirAll"
               /\ Goto(p, "lowerDirs")
               /\ UNCHANGED <<dirs, j>>
    /\ UNCHANGED <<osArgs, inputs, env, ops, spawns, envVars, idx, layers, lowerDirs,
                   statErr, k, cwd, shell, exit, failed, perr>>

\* line 146: strings.Split(layer.Digest, ":")[1] panics (index out of range)
\* when the digest holds no ':'
DigestPanics(digest) == Len(Split(digest, ":")) < 2

\* line 146: the layer's directory
LayerPath(digest) == Join(LayersRoot, Split(digest, ":")[2])

\* a variant that keeps the order of the manifest
LowerDirsInManifestOrder(ls) == [i \in 1..Len(ls) |-> LayerPath(ls[i])]

\* lines 142-148: the layers from the last to the first
LowerDirsOf(ls) == [i \in 1..Len(ls) |-> LayerPath(ls[Len(ls) + 1 - i])]

\* a variant of setLayers that reports an empty layer list as an error
BuildLowerDirsNeedsLayers(p) ==
    /\ pc[p] = "lowerDirs"
    /\ IF \E i \in 1..Len(layers) : DigestPanics(layers[i])
       THEN /\ ExitWith(p, 2)
            /\ UNCHANGED <<lowerDirs, failed>>
       ELSE IF layers = <<>>
            THEN /\ StageFails(p, "setLayers")
                 /\ UNCHANGED lowerDirs
            ELSE /\ lowerDirs' = LowerDirsOf(layers)
                 /\ Goto(p, "mountOverlayFS")
                 /\ UNCHANGED <<exit, failed>>
    /\ UNCHANGED <<osArgs, inputs, dirs, env, ops, spawns, envVars, idx, j, layers,
                   prepareErr, statErr, k, cwd, shell, perr>>

\* setLayers, lines 142-148: the loop as one step; a panic ends the process
\* with status 2
BuildLowerDirs(p) ==
    /\ pc[p] = "lowerDirs"
    /\ IF \E i \in 1..Len(layers) : DigestPanics(layers[i])
       THEN /\ ExitWith(p, 2)
            /\ UNCHANGED lowerDirs
       ELSE /\ lowerDirs' = LowerDirsOf(layers)
            /\ Goto(p, "mountOverlayFS")
            /\ UNCHANGED exit
    /\ UNCHANGED <<osArgs, inputs, dirs, env, ops, spawns, envVars, idx, j, layers,
                   prepareErr, statErr, k, cwd, shell, failed, perr>>

\* mountOverlayFS, lines 160-161
OverlayOptions(lower, upperDir, workDir) ==
    <<"lowerdir=">> \o StringsJoin(lower, ":") \o <<",upperdir=">> \o upperDir
        \o <<",workdir=">> \o workDir

\* mountOverlayFS, line 166
MountOverlayCmd(lower, upperDir, workDir, targetDir) ==
    << <<"mount">>, <<"-t">>, <<"overlay">>, <<"overlay">>, <<"-o">>,
       OverlayOptions(lower, upperDir, workDir), targetDir >>

\* mountOverlayFS, lines 159-172, and setLayers, lines 151-155: the mount
\* cannot succeed without its upper, work and target directories
MountOverlayFS(p) ==
    /\ pc[p] = "mountOverlayFS"
    /\ \E ok \in (IF {UpperDir(p), WorkDir(p), TargetDir(p)} \subseteq dirs
                  THEN BOOLEAN ELSE {FALSE}) :
          /\ Issue(p, MountOverlayCmd(lowerDirs, UpperDir(p), WorkDir(p), TargetDir(p)), ok)
          /\ IF ok
             THEN Goto(p, "mountBaseFs") /\ UNCHANGED <<exit, failed>>
             ELSE StageFails(p, "setLayers")
    /\ UNCHANGED <<osArgs, inputs, dirs, env, spawns, locals, cwd, shell, perr>>

\* a variant that mounts dev/pts before dev
BaseFsMountsPtsFirst(targetDir) ==
    << << <<"mount">>, <<"-t">>, <<"proc">>, <<"none">>, Join(targetDir, <<"proc">>) >>,
       << <<"mount">>, <<"-t">>, <<"sysfs">>, <<"none">>, Join(targetDir, <<"sys">>) >>,
       << <<"mount">>, <<"-t">>, <<"devpts">>, <<"devpts">>, Join(targetDir, <<"dev/pts">>) >>,
       << <<"mount">>, <<"-t">>, <<"devtmpfs">>, <<"devtmpfs">>, Join(targetDir, <<"dev">>) >>,
       << <<"mount">>, <<"-t">>, <<"tmpfs">>, <<"shm">>, Join(targetDir, <<"dev/shm">>) >>,
       << <<"mount">>, <<"-t">>, <<"tmpfs">>, <<"tmpfs">>, Join(targetDir, <<"run">>) >>,
       << <<"mount">>, <<"-t">>, <<"tmpfs">>, <<"tmpfs">>, Join(targetDir, <<"tmp">>) >> >>

\* mountBaseFs, lines 174-218: the seven mounts, in the order of the code
BaseFsMounts(targetDir) ==
    << << <<"mount">>, <<"-t">>, <<"proc">>, <<"none">>, Join(targetDir, <<"proc">>) >>,
       << <<"mount">>, <<"-t">>, <<"sysfs">>, <<"none">>, Join(targetDir, <<"sys">>) >>,
       << <<"mount">>, <<"-t">>, <<"devtmpfs">>, <<"devtmpfs">>, Join(targetDir, <<"dev">>) >>,
       << <<"mount">>, <<"-t">>, <<"devpts">>, <<"devpts">>, Join(targetDir, <<"dev/pts">>) >>,
       << <<"mount">>, <<"-t">>, <<"tmpfs">>, <<"shm">>, Join(targetDir, <<"dev/shm">>) >>,
       << <<"mount">>, <<"-t">>, <<"tmpfs">>, <<"tmpfs">>, Join(targetDir, <<"run">>) >>,
       << <<"mount">>, <<"-t">>, <<"tmpfs">>, <<"tmpfs">>, Join(targetDir, <<"tmp">>) >> >>

\* a variant of childProcess that logs the error of mountBaseFs and goes on
MountBaseFsGoesOn(p) ==
    /\ pc[p] = "mountBaseFs"
    /\ \E ok \in BOOLEAN :
          /\ Issue(p, BaseFsMounts(TargetDir(p))[k + 1], ok)
          /\ IF ok
             THEN /\ k' = k + 1
                  /\ Goto(p, IF k + 1 = Len(BaseFsMounts(TargetDir(p)))
                             THEN "mountVolume" ELSE "mountBaseFs")
                  /\ UNCHANGED failed
             ELSE /\ failed' = "mountBaseFs"
                  /\ k' = 7
                  /\ Goto(p, "mountVolume")
    /\ UNCHANGED <<osArgs, inputs, dirs, env, spawns, envVars, idx, j, layers, lowerDirs,
                   prepareErr, statErr, cwd, shell, perr, exit>>

\* a variant of mountBaseFs that skips a mount that failed
MountBaseFsSkipsFailed(p) ==
    /\ pc[p] = "mountBaseFs"
    /\ \E ok \in BOOLEAN :
          /\ Issue(p, BaseFsMounts(TargetDir(p))[k + 1], ok)
          /\ k' = k + 1
          /\ Goto(p, IF k + 1 = Len(BaseFsMounts(TargetDir(p)))
                     THEN "mountVolume" ELSE "mountBaseFs")
    /\ UNCHANGED <<osArgs, inputs, dirs, env, spawns, envVars, idx, j, layers, lowerDirs,
                   prepareErr, statErr, cwd, shell, perr, exit, failed>>

\* mountBaseFs: the next mount of the seven; childProcess, lines 295-299
MountBaseFs(p) ==
    /\ pc[p] = "mountBaseFs"
    /\ \E ok \in BOOLEAN :
          /\ Issue(p, BaseFsMounts(TargetDir(p))[k + 1], ok)
          /\ IF ok
             THEN /\ k' = k + 1
                  /\ Goto(p, IF k + 1 = Len(BaseFsMounts(TargetDir(p)))
                             THEN "mountVolume" ELSE "mountBaseFs")
                  /\ UNCHANGED <<exit, failed>>
             ELSE /\ StageFails(p, "mountBaseFs")
                  /\ UNCHANGED k
    /\ UNCHANGED <<osArgs, inputs, dirs, env, spawns, envVars, idx, j, layers, lowerDirs,
                   prepareErr, statErr, cwd, shell, perr>>

\* os.Stat(volumeDir): ENOENT when the directory is not there; when it is,
\* nil or another error (EACCES, EIO, ...)
StatOutcomes(d) == IF d \in dirs THEN {"", "EOTHER"} ELSE {"ENOENT"}

\* a variant that takes no error for "not there"
IsNotExistNever(err) == FALSE

\* os.IsNotExist(err), line 221
IsNotExist(err) == err = "ENOENT"

\* mountVolume, lines 221-223
MountVolumeStat(p) ==
    /\ pc[p] = "mountVolume"
    /\ \E err \in StatOutcomes(VolumeDir(p)) :
          /\ statErr' = err
          /\ IF IsNotExist(err)
             THEN StageFails(p, "mountVolume")
             ELSE Goto(p, "mountVolumeMkdirAll") /\ UNCHANGED <<exit, failed>>
    /\ UNCHANGED <<osArgs, inputs, dirs, env, ops, spawns, envVars, idx, j, layers,
                   lowerDirs, prepareErr, k, cwd, shell, perr>>

TargetVolumeDir(p) == Join(TargetDir(p), <<"volume">>)

\* mountVolume, lines 224-228
MountVolumeMkdirAll(p) ==
    /\ pc[p] = "mountVolumeMkdirAll"
    /\ \E ok \in MkdirAllOutcomes(TargetVolumeDir(p)) :
          IF ok
          THEN /\ dirs' = dirs \cup WithParents(TargetVolumeDir(p))
               /\ Goto(p, "mountVolumeBind")
               /\ UNCHANGED <<exit, failed>>
          ELSE /\ StageFails(p, "mountVolume")
               /\ UNCHANGED dirs
    /\ UNCHANGED <<osArgs, inputs, env, ops, spawns, locals, cwd, shell, perr>>

MountBindCmd(volumeDir, targetVolumeDir) ==
    << <<"mount">>, <<"--bind">>, volumeDir, targetVolumeDir >>

\* mountVolume, lines 229-235: a bind mount needs its source directory
MountVolumeBind(p) ==
    /\ pc[p] = "mountVolumeBind"
    /\ \E ok \in (IF VolumeDir(p) \in dirs THEN BOOLEAN ELSE {FALSE}) :
          /\ Issue(p, MountBindCmd(VolumeDir(p), TargetVolumeDir(p)), ok)
          /\ IF ok
             THEN Goto(p, "chroot") /\ UNCHANGED <<exit, failed>>
             ELSE StageFails(p, "mountVolume")
    /\ UNCHANGED <<osArgs, inputs, dirs, env, spawns, locals, cwd, shell, perr>>

\* a variant of chroot that does not check the result of os.Chdir
ChdirGoesOn(p) ==
    /\ pc[p] = "chroot"
    /\ \E ok \in (IF TargetDir(p) \in dirs THEN BOOLEAN ELSE {FALSE}) :
          /\ cwd' = IF ok THEN TargetDir(p) ELSE cwd
          /\ Goto(p, "PivotRoot")
    /\ UNCHANGED <<osArgs, inputs, dirs, env, ops, spawns, locals, shell, perr, exit, failed>>

\* chroot, lines 239-242
Chdir(p) ==
    /\ pc[p] = "chroot"
    /\ \E ok \in (IF TargetDir(p) \in dirs THEN BOOLEAN ELSE {FALSE}) :
          IF ok
          THEN /\ cwd' = TargetDir(p)
               /\ Goto(p, "PivotRoot")
               /\ UNCHANGED <<exit, failed>>
          ELSE /\ StageFails(p, "chroot")
               /\ UNCHANGED cwd
    /\ UNCHANGED <<osArgs, inputs, dirs, env, ops, spawns, locals, shell, perr>>

PivotRootCmd == << <<"pivot_root">>, <<".">>, <<".">> >>

\* chroot, lines 243-246
PivotRoot(p) ==
    /\ pc[p] = "PivotRoot"
    /\ \E ok \in BOOLEAN :
          /\ Issue(p, PivotRootCmd, ok)
          /\ IF ok
             THEN Goto(p, "umount") /\ UNCHANGED <<exit, failed>>
             ELSE StageFails(p, "chroot")
    /\ UNCHANGED <<osArgs, inputs, dirs, env, spawns, locals, cwd, shell, perr>>

UmountCmd == << <<"umount">>, <<"-l">>, <<".">> >>

\* chroot, lines 247-253
Umount(p) ==
    /\ pc[p] = "umount"
    /\ \E ok \in BOOLEAN :
          /\ Issue(p, UmountCmd, ok)
          /\ IF ok
             THEN Goto(p, "sh") /\ UNCHANGED <<exit, failed>>
             ELSE StageFails(p, "chroot")
    /\ UNCHANGED <<osArgs, inputs, dirs, env, spawns, locals, cwd, shell, perr>>

\* childProcess, lines 314-318: cmd.Run starts /bin/sh, or fails to
ShellStart(p) ==
    /\ pc[p] = "sh"
    /\ \E started \in BOOLEAN :
          IF started
          THEN /\ shell' = "running"
               /\ Goto(p, "shWait")
               /\ UNCHANGED <<exit, failed>>
          ELSE /\ shell' = "err"
               /\ StageFails(p, "sh")
    /\ UNCHANGED <<osArgs, inputs, dirs, env, ops, spawns, locals, cwd, perr>>

\* childProcess, lines 318-321: the shell exits, cmd.Run returns, the error
\* of a non-zero exit is printed, childProcess returns
ShellExit(p) ==
    /\ pc[p] = "shWait"
    /\ \E status \in {"ok", "err"} :
          /\ shell' = status
          /\ failed' = IF status = "err" THEN "sh" ELSE failed
          /\ ExitWith(p, 0)
    /\ UNCHANGED <<osArgs, inputs, dirs, env, ops, spawns, locals, cwd, perr>>

Next ==
    \E p \in Procs :
        \/ Main(p)
        \/ ParentMkdirAll(p)
        \/ RunInNamespace(p)
        \/ ParentWait(p)
        \/ MountRecPrivate(p)
        \/ SetEnvLoad(p)
        \/ SetEnvLoop(p)
        \/ SetLayersLoad(p)
        \/ PrepareDirsBase(p)
        \/ MountTmpfs(p)
        \/ PrepareDirsLoop(p)
        \/ BuildLowerDirs(p)
        \/ MountOverlayFS(p)
        \/ MountBaseFs(p)
        \/ MountVolumeStat(p)
        \/ MountVolumeMkdirAll(p)
        \/ MountVolumeBind(p)
        \/ Chdir(p)
        \/ PivotRoot(p)
        \/ Umount(p)
        \/ ShellStart(p)
        \/ ShellExit(p)

Spec == Init /\ [][Next]_vars

\* A caller that invokes setLayers a second time on the same base directory,
\* with no teardown, once the first call has returned nil.  The program has
\* no such caller; it stands for the repeated invocation the specification
\* describes for the Overlay Assembler.
SetLayersAgain(p) ==
    /\ pc[p] = "mountBaseFs"
    /\ k = 0
    /\ Cardinality({i \in 1..Len(ops) : Len(ops[i].cmd) = 7}) = 1
    /\ Goto(p, "setLayers")
    /\ layers' = <<>>
    /\ lowerDirs' = <<>>
    /\ prepareErr' = ""
    /\ j' = 0
    /\ UNCHANGED <<osArgs, inputs, dirs, env, ops, spawns, exit, envVars, idx, statErr, k,
                   cwd, shell, failed, perr>>

\* the child invoked directly, up to the return of the second setLayers
TwiceInit == Init /\ osArgs[Top] = DirectChild
TwiceNext ==
    \E p \in Procs :
        \/ Main(p)
        \/ MountRecPrivate(p)
        \/ SetEnvLoad(p)
        \/ SetEnvLoop(p)
        \/ SetLayersLoad(p)
        \/ PrepareDirsBase(p)
        \/ MountTmpfs(p)
        \/ PrepareDirsLoop(p)
        \/ BuildLowerDirs(p)
        \/ MountOverlayFS(p)
        \/ SetLayersAgain(p)
TwiceSpec == TwiceInit /\ [][TwiceNext]_vars

\* the runs that take the parent path of main
ParentInit == Init /\ ~(Len(osArgs[Top]) > 1 /\ osArgs[Top][2] = Sentinel)

\* cmd.Run returns once the child has exited, and main goes on from there
ParentSpec == ParentInit /\ [][Next]_vars /\ WF_vars(ParentWait(Top))

\* ------------------------------------------------------------ the claims
\* the process running childProcess in this run, if any
TopIsChild == Len(osArgs[Top]) > 1 /\ osArgs[Top][2] = Sentinel
Runner == IF TopIsChild THEN Top ELSE Sub

AllOk == \A i \in 1..Len(ops) : ops[i].ok
Succeeded(cmd) == \E i \in 1..Len(ops) : ops[i].cmd = cmd /\ ops[i].ok
IsOverlay(cmd) == Len(cmd) = 7 /\ cmd[3] = <<"overlay">>

\* C1: make-rprivate is the first mount operation: every other operation in
\* the log comes after a successful make-rprivate, and after a failed
\* make-rprivate the log holds nothing else.
C1_RPrivateFirst ==
    /\ \A i \in 1..Len(ops) :
          ops[i].cmd # <<  <<"mount">>, <<"--make-rprivate">>, <<"/">> >>
              => \E h \in 1..(i - 1) :
                    /\ ops[h].cmd = << <<"mount">>, <<"--make-rprivate">>, <<"/">> >>
                    /\ ops[h].ok
    /\ (Len(ops) >= 1 /\ ~ops[1].ok) => Len(ops) = 1

C1_Witness ==
    /\ Len(ops) >= 2
    /\ ops[2].cmd[3] = <<"tmpfs">>

\* the mount-table operations of a run in which everything succeeds, with
\* the overlay options left open
C2_Sequence(base, volume, options) ==
    << << <<"mount">>, <<"--make-rprivate">>, <<"/">> >>,
       << <<"mount">>, <<"-t">>, <<"tmpfs">>, <<"tmpfs">>, base >>,
       << <<"mount">>, <<"-t">>, <<"overlay">>, <<"overlay">>, <<"-o">>, options,
          base \o <<"/", "merged">> >>,
       << <<"mount">>, <<"-t">>, <<"proc">>, <<"none">>, base \o <<"/", "merged", "/", "proc">> >>,
       << <<"mount">>, <<"-t">>, <<"sysfs">>, <<"none">>, base \o <<"/", "merged", "/", "sys">> >>,
       << <<"mount">>, <<"-t">>, <<"devtmpfs">>, <<"devtmpfs">>, base \o <<"/", "merged", "/", "dev">> >>,
       << <<"mount">>, <<"-t">>, <<"devpts">>, <<"devpts">>, base \o <<"/", "merged", "/", "dev/pts">> >>,
       << <<"mount">>, <<"-t">>, <<"tmpfs">>, <<"shm">>, base \o <<"/", "merged", "/", "dev/shm">> >>,
       << <<"mount">>, <<"-t">>, <<"tmpfs">>, <<"tmpfs">>, base \o <<"/", "merged", "/", "run">> >>,
       << <<"mount">>, <<"-t">>, <<"tmpfs">>, <<"tmpfs">>, base \o <<"/", "merged", "/", "tmp">> >>,
       << <<"mount">>, <<"--bind">>, volume, base \o <<"/", "merged", "/", "volume">> >>,
       << <<"pivot_root">>, <<".">>, <<".">> >>,
       << <<"umount">>, <<"-l">>, <<".">> >> >>

\* C2: while every operation has succeeded, the log is the start of the
\* fixed sequence of thirteen operations, and it is the whole sequence once
\* the shell has been reached.
C2_ExactSequence ==
    AllOk =>
        LET options == IF Len(ops) >= 3 THEN ops[3].cmd[6] ELSE <<>>
            want == C2_Sequence(osArgs[Runner][5], osArgs[Runner][6], options)
        IN  /\ Len(ops) <= 13
            /\ \A i \in 1..Len(ops) : ops[i].cmd = want[i]
            /\ \A i \in 1..Len(ops) : ops[i].proc = Runner
            /\ pc[Runner] \in {"sh", "shWait"} \/ shell # "none" => Len(ops) = 13

C2_Witness ==
    /\ AllOk
    /\ Len(ops) = 13
    /\ shell = "running"

\* the stage a mount-table operation belongs to
StageOfCmd(cmd) ==
    IF cmd[2] = <<"--make-rprivate">> THEN 1
    ELSE IF cmd[1] = <<"pivot_root">> \/ cmd[1] = <<"umount">> THEN 6
    ELSE IF cmd[2] = <<"--bind">> THEN 5
    ELSE IF cmd[3] = <<"overlay">> THEN 3
    ELSE IF cmd[3] = <<"tmpfs">> /\ Len(cmd[5]) = 1 THEN 3
    ELSE 4
StageNumber(stage) ==
    CASE stage = "mountRecPrivate" -> 1
      [] stage = "setEnv" -> 2
      [] stage = "setLayers" -> 3
      [] stage = "mountBaseFs" -> 4
      [] stage = "mountVolume" -> 5
      [] stage = "chroot" -> 6

\* C3: once a stage has returned an error, the process has returned with
\* nothing of a later stage done: no operation of a later stage is in the
\* log, the shell was not started, and the only unmount ever in the log is
\* "umount -l ." right after a successful pivot_root.
C3_FailFast ==
    /\ failed \in {"mountRecPrivate", "setEnv", "setLayers", "mountBaseFs",
                   "mountVolume", "chroot"} =>
          /\ pc[Runner] = "exited"
          /\ shell = "none"
          /\ \A i \in 1..Len(ops) : StageOfCmd(ops[i].cmd) <= StageNumber(failed)
          /\ StageNumber(failed) < 2 => env = InheritedEnv /\ idx = 0
          /\ StageNumber(failed) < 3 => layers = <<>> /\ prepareErr = "" /\ j = 0
          /\ StageNumber(failed) < 4 => k = 0
          /\ StageNumber(failed) < 5 => statErr = ""
          /\ StageNumber(failed) < 6 => cwd = <<>>
    /\ \A i \in 1..Len(ops) :
          ops[i].cmd[1] = <<"umount">> =>
              /\ ops[i].cmd = << <<"umount">>, <<"-l">>, <<".">> >>
              /\ i > 1
              /\ ops[i - 1].cmd[1] = <<"pivot_root">>
              /\ ops[i - 1].ok
              /\ i = Len(ops)

C3_Witness ==
    /\ failed = "mountVolume"
    /\ Len(ops) >= 10
    /\ pc[Runner] = "exited"

OverlayIssued == \E i \in 1..Len(ops) : IsOverlay(ops[i].cmd)

\* C4: a failure inside prepareDirs (creating the base directory, mounting
\* the tmpfs, creating upper, work or merged) makes setLayers return an
\* error, and the overlay mount is not issued.
C4_PrepareDirsErrorPropagates ==
    prepareErr # "" =>
        /\ ~OverlayIssued
        /\ pc[Runner] \in {"lowerDirs", "mountOverlayFS", "exited"}
        /\ pc[Runner] = "exited" /\ exit[Runner] = 0 => failed = "setLayers"

\* C5: the overlay is mounted only if the tmpfs mount on the base directory
\* succeeded, and the shell runs only if all thirteen operations and the
\* chdir succeeded.
C5_StatesInOrder ==
    /\ (\E i \in 1..Len(ops) : IsOverlay(ops[i].cmd) /\ ops[i].ok)
          => Succeeded(<< <<"mount">>, <<"-t">>, <<"tmpfs">>, <<"tmpfs">>, osArgs[Runner][5] >>)
    /\ shell = "running" =>
          /\ Len(ops) = 13
          /\ AllOk
          /\ cwd = osArgs[Runner][5] \o <<"/", "merged">>

\* a digest of the form algorithm:hex: one ':' with the hex after it (the
\* algorithm part is never read, so it is left free)
C6_WellFormed(d) ==
    /\ Cardinality({i \in 1..Len(d) : d[i] = ":"}) = 1
    /\ d[Len(d)] # ":"
C6_Hex(d) == SubSeq(d, IndexOf(d, ":") + 1, Len(d))
C6_Path(d) == <<"/tmp/proxy_pool/layers", "/">> \o C6_Hex(d)
RECURSIVE C6_ColonJoined(_)
C6_ColonJoined(paths) ==
    IF paths = <<>> THEN <<>>
    ELSE IF Len(paths) = 1 THEN paths[1]
    ELSE paths[1] \o <<":">> \o C6_ColonJoined(Tail(paths))
RECURSIVE C6_TopFirst(_)
C6_TopFirst(ls) ==
    IF ls = <<>> THEN <<>>
    ELSE <<C6_Path(ls[Len(ls)])>> \o C6_TopFirst(SubSeq(ls, 1, Len(ls) - 1))

\* C6: for a manifest of well-formed digests [L0..Ln], the overlay mount is
\* given lowerdir = path(Ln):...:path(L0), path(L) being the layer cache
\* root followed by the hex of L.
C6_LowerDirsReversed ==
    \A i \in 1..Len(ops) :
        (IsOverlay(ops[i].cmd) /\ \A n \in 1..Len(manifestFile.val) : C6_WellFormed(manifestFile.val[n]))
            => /\ lowerDirs = C6_TopFirst(manifestFile.val)
               /\ Len(lowerDirs) = Len(manifestFile.val)
               /\ ops[i].cmd[6] = <<"lowerdir=">> \o C6_ColonJoined(C6_TopFirst(manifestFile.val))
                                    \o <<",upperdir=">> \o osArgs[Runner][5] \o <<"/", "upper">>
                                    \o <<",workdir=">> \o osArgs[Runner][5] \o <<"/", "work">>

C6_Witness ==
    /\ OverlayIssued
    /\ Len(manifestFile.val) = 2
    /\ \A n \in 1..2 : C6_WellFormed(manifestFile.val[n])
    /\ C6_Hex(manifestFile.val[1]) # C6_Hex(manifestFile.val[2])

C7_Malformed(e) == \A i \in 1..Len(e) : e[i] # "="
C7_Key(e) == SubSeq(e, 1, IndexOf(e, "=") - 1)
C7_Value(e) == SubSeq(e, IndexOf(e, "=") + 1, Len(e))
\* the environment with the entries applied from the first to the last
RECURSIVE C7_Applied(_, _)
C7_Applied(e, entries) ==
    IF entries = <<>> THEN e
    ELSE LET before == C7_Applied(e, SubSeq(entries, 1, Len(entries) - 1))
             last == entries[Len(entries)]
         IN  [x \in DOMAIN before \cup {C7_Key(last)} |->
                 IF x = C7_Key(last) THEN C7_Value(last) ELSE before[x]]

\* C7: when setEnv has failed on a malformed entry at position idx, the
\* environment is the inherited one with exactly the entries before idx
\* applied, and the log holds the make-rprivate mount and nothing else.
C7_MalformedEntryStops ==
    (/\ failed = "setEnv"
     /\ configFile.ok
     /\ idx \in 1..Len(configFile.val)
     /\ C7_Malformed(configFile.val[idx]))
        => /\ env = C7_Applied(InheritedEnv, SubSeq(configFile.val, 1, idx - 1))
           /\ \A i \in 1..(idx - 1) : C7_Key(configFile.val[i]) \in DOMAIN env
           /\ Len(ops) = 1
           /\ ops[1].cmd[2] = <<"--make-rprivate">>
           /\ pc[Runner] = "exited"

C7_Witness ==
    /\ failed = "setEnv"
    /\ idx = 2
    /\ Len(configFile.val) = 2
    /\ C7_Malformed(configFile.val[2])
    /\ <<"K", "K">> \in DOMAIN env

\* C8: when mountVolume has been called with a volume directory that does
\* not exist, it has failed, <merged>/volume has not been created, and no
\* bind mount, pivot_root or shell has followed.
C8_MissingVolumeChangesNothing ==
    (/\ pc[Runner] \notin {"unborn", "main", "mountVolume"}
     /\ k = 7
     /\ osArgs[Runner][6] \notin dirs)
        => /\ failed = "mountVolume"
           /\ pc[Runner] = "exited"
           /\ (osArgs[Runner][5] \o <<"/", "merged", "/", "volume">>) \notin dirs
           /\ \A i \in 1..Len(ops) :
                 ops[i].cmd[2] # <<"--bind">> /\ ops[i].cmd[1] # <<"pivot_root">>
           /\ Len(ops) = 10
           /\ shell = "none"

C8_Witness ==
    /\ k = 7
    /\ failed = "mountVolume"
    /\ osArgs[Runner][6] \notin dirs

\* C9: a process started with the sentinel and a number of following
\* arguments other than four has, once past the check, exited with status 1
\* and nothing has been mounted, spawned or set.
C9_ChildUsageError ==
    \A p \in Procs :
        (/\ Len(osArgs[p]) > 1
         /\ osArgs[p][2] = <<"child">>
         /\ Len(osArgs[p]) - 2 # 4
         /\ pc[p] # "main")
            => /\ pc[p] = "exited"
               /\ exit[p] = 1
               /\ ops = <<>>
               /\ spawns = <<>>
               /\ env = InheritedEnv
               /\ failed = "" /\ idx = 0 /\ layers = <<>> /\ shell = "none"

C9_Witness ==
    /\ Len(osArgs[Top]) = 7
    /\ osArgs[Top][2] = <<"child">>
    /\ exit[Top] = 1

\* C10: on the parent path the parent issues no mount-table operation; it
\* spawns at most one child, with the arguments child, config, manifest,
\* base, volume and the five namespaces, only after the volume directory was
\* created; nothing else happens before the child runs.
C10_ParentOnlySpawns ==
    ~TopIsChild =>
        /\ \A i \in 1..Len(ops) : ops[i].proc # Top
        /\ Len(spawns) <= 1
        /\ \A i \in 1..Len(spawns) :
              /\ spawns[i].by = Top
              /\ spawns[i].args = << <<"child">>, <<"/tmp/proxy_pool/config.json">>,
                                     <<"/tmp/proxy_pool/manifest.json">>,
                                     <<"/tmp/proxy_pool/overlay">>,
                                     <<"/tmp/proxy_pool/volume">> >>
              /\ osArgs[Sub] = << spawns[i].path >> \o spawns[i].args
              /\ spawns[i].flags = {"CLONE_NEWUTS", "CLONE_NEWIPC", "CLONE_NEWNET",
                                    "CLONE_NEWNS", "CLONE_NEWPID"}
              /\ <<"/tmp/proxy_pool/volume">> \in dirs
              /\ perr # "MkdirAll"
        /\ (pc[Sub] # "unborn") = (Len(spawns) = 1)
        /\ perr = "MkdirAll" => spawns = <<>> /\ pc[Top] = "exited"
        /\ pc[Sub] = "unborn" =>
              ops = <<>> /\ env = InheritedEnv /\ cwd = <<>> /\ shell = "none" /\ failed = ""

C10_Witness ==
    /\ ~TopIsChild
    /\ Len(spawns) = 1
    /\ Len(ops) >= 2
    /\ pc[Top] = "Wait"


\* C11: the parent has exited only if the child it started has exited, so
\* it never exits while the child (or its shell) runs; and once the child
\* has exited the waiting parent exits too.
C11_ParentBlocksOnChild ==
    /\ [](pc[Top] = "exited" /\ Len(spawns) = 1 => pc[Sub] = "exited")
    /\ [](pc[Top] = "Wait" => Len(spawns) = 1 /\ pc[Sub] # "unborn")
    /\ (pc[Top] = "Wait" /\ pc[Sub] = "exited") ~> (pc[Top] = "exited")

C11_Witness ==
    /\ Len(spawns) = 1
    /\ shell = "ok"
    /\ pc[Sub] = "exited"
    /\ pc[Top] = "exited"


\* C12: when the parent has exited after running a child, it has reported
\* an error exactly when the child's run failed (a stage failed or the
\* child's exit status is not 0).
C12_ParentSurfacesOutcome ==
    (~TopIsChild /\ Len(spawns) = 1 /\ pc[Top] = "exited")
        => ((perr # "") = (failed # "" \/ exit[Sub] # 0))


\* C13: a second setLayers on the same base directory never ends with a
\* second tmpfs and a second overlay mounted over the first ones.
C13_SecondSetLayersFails ==
    ~(/\ Cardinality({i \in 1..Len(ops) : ops[i].ok /\ ops[i].cmd =
                        << <<"mount">>, <<"-t">>, <<"tmpfs">>, <<"tmpfs">>, osArgs[Top][5] >>}) = 2
      /\ Cardinality({i \in 1..Len(ops) : ops[i].ok /\ IsOverlay(ops[i].cmd)}) = 2)


\* the seven pseudo-filesystem mounts: type, source, directory below merged
C14_Seven ==
    << <<"proc", "none", "proc">>, <<"sysfs", "none", "sys">>,
       <<"devtmpfs", "devtmpfs", "dev">>, <<"devpts", "devpts", "dev/pts">>,
       <<"tmpfs", "shm", "dev/shm">>, <<"tmpfs", "tmpfs", "run">>,
       <<"tmpfs", "tmpfs", "tmp">> >>

\* C14: the operations of mountBaseFs in the log are the first ones of the
\* seven, in the fixed order, each issued only after all the ones before it
\* succeeded; a failed one is the last operation of the run, mountBaseFs has
\* returned its error, and the earlier ones are still in place.
C14_BaseFsInOrderFailFast ==
    \A i \in 1..Len(ops) :
        StageOfCmd(ops[i].cmd) = 4 =>
            LET o == IF IsOverlay(ops[2].cmd) THEN 2 ELSE 3
                n == i - o
            IN  /\ i >= 3
                /\ IsOverlay(ops[o].cmd)
                /\ n \in 1..7
                /\ ops[i].cmd = << <<"mount">>, <<"-t">>, <<C14_Seven[n][1]>>, <<C14_Seven[n][2]>>,
                                   osArgs[Runner][5] \o <<"/", "merged", "/", C14_Seven[n][3]>> >>
                /\ \A h \in o..(i - 1) : ops[h].ok
                /\ ~ops[i].ok =>
                      /\ i = Len(ops)
                      /\ failed = "mountBaseFs"
                      /\ pc[Runner] = "exited"
                      /\ k = n - 1
                /\ ops[i].ok => k >= n

C14_Witness ==
    /\ failed = "mountBaseFs"
    /\ k = 3
    /\ Len(ops) >= 6
    /\ ~ops[Len(ops)].ok
    /\ ops[Len(ops)].cmd[3] = <<"devpts">>

\* C15: pivot_root is issued only with the working directory changed to
\* merged and after a successful make-rprivate by the same process; the
\* lazy unmount only right after a successful pivot_root; a failed chdir,
\* pivot_root or unmount is the end of the run.
C15_RootSwitchProtocol ==
    /\ \A i \in 1..Len(ops) :
          ops[i].cmd[1] = <<"pivot_root">> =>
              /\ ops[i].cmd = << <<"pivot_root">>, <<".">>, <<".">> >>
              /\ cwd = osArgs[Runner][5] \o <<"/", "merged">>
              /\ \E h \in 1..(i - 1) :
                    /\ ops[h].cmd[2] = <<"--make-rprivate">>
                    /\ ops[h].ok
                    /\ ops[h].proc = ops[i].proc
              /\ \A h \in 1..Len(ops) : ops[h].cmd[1] = <<"pivot_root">> => h = i
              /\ ~ops[i].ok => i = Len(ops) /\ failed = "chroot" /\ shell = "none"
    /\ \A i \in 1..Len(ops) :
          ops[i].cmd[1] = <<"umount">> =>
              /\ i > 1
              /\ ops[i - 1].cmd[1] = <<"pivot_root">>
              /\ ops[i - 1].ok
              /\ ~ops[i].ok => failed = "chroot" /\ shell = "none"
    /\ (failed = "chroot" /\ cwd = <<>>) =>
          \A i \in 1..Len(ops) : ops[i].cmd[1] \notin {<<"pivot_root">>, <<"umount">>}
    /\ pc[Runner] \in {"PivotRoot", "umount"} => cwd = osArgs[Runner][5] \o <<"/", "merged">>

C15_Witness ==
    /\ failed = "chroot"
    /\ cwd # <<>>
    /\ Len(ops) = 12
    /\ ~ops[12].ok


\* C16: a digest without ':' is handled like any other stage failure: when
\* the run has ended with such a digest in a loaded manifest and setLayers
\* was reached, setLayers is the recorded failed stage, the exit status is
\* 0 and the overlay mount was not issued.
C16_BadDigestIsStageFailure ==
    (/\ manifestFile.ok
     /\ \E n \in 1..Len(manifestFile.val) : ":" \notin Range(manifestFile.val[n])
     /\ layers = manifestFile.val
     /\ pc[Runner] = "exited")
        => /\ failed = "setLayers"
           /\ exit[Runner] = 0
           /\ ~OverlayIssued

C17_Accepted(e) == ~C7_Malformed(e) /\ C7_Key(e) # <<>>

\* C17 as stated: setEnv fails at an entry only when the entry has no '='.
C17_OnlyNoEqualsRejected ==
    (/\ failed = "setEnv"
     /\ configFile.ok
     /\ idx \in 1..Len(configFile.val))
        => C7_Malformed(configFile.val[idx])

\* C17, amended: an entry is accepted exactly when it contains a '=' and the
\* text before the first '=' is not empty; the key is the text before the
\* first '=' and the value all the text after it, further '=' included.
C17_AcceptedIffKeyBeforeEquals ==
    (configFile.ok /\ idx >= 1) =>
        /\ envVars = configFile.val
        /\ \A i \in 1..(idx - 1) : C17_Accepted(configFile.val[i])
        /\ env = C7_Applied(InheritedEnv, SubSeq(configFile.val, 1, idx - 1))
        /\ (failed = "setEnv" /\ idx <= Len(configFile.val)) => ~C17_Accepted(configFile.val[idx])
        /\ idx > Len(configFile.val) => failed # "setEnv"
        /\ (pc[Runner] = "exited" /\ failed # "mountRecPrivate" /\ idx <= Len(configFile.val))
              => failed = "setEnv"

C17_Witness ==
    /\ configFile.ok
    /\ Len(configFile.val) = 2
    /\ configFile.val[1] = <<"K", "=", "=">>
    /\ configFile.val[2] = <<"=", "K">>
    /\ env[<<"K">>] = <<"=">>
    /\ failed = "setEnv"
    /\ idx = 2


\* C18: with a manifest that cannot be loaded, no directory is created and
\* neither the tmpfs nor the overlay mount is issued, and a run that
\* reaches setLayers ends with setLayers as the failed stage; with a config
\* that cannot be loaded, the environment stays the inherited one and a run
\* that reaches setEnv ends with setEnv as the failed stage.
C18_UnloadableDescriptorChangesNothing ==
    /\ ~manifestFile.ok =>
          /\ dirs \ {volumeDirPath} \in {{}, Leftover}
          /\ \A i \in 1..Len(ops) : StageOfCmd(ops[i].cmd) = 1
          /\ layers = <<>> /\ lowerDirs = <<>> /\ j = 0 /\ prepareErr = ""
          /\ (/\ pc[Runner] = "exited"
              /\ configFile.ok
              /\ idx > Len(configFile.val)) => failed = "setLayers" /\ exit[Runner] = 0
    /\ ~configFile.ok =>
          /\ env = InheritedEnv
          /\ envVars = <<>> /\ idx = 0
          /\ dirs \ {volumeDirPath} \in {{}, Leftover}
          /\ \A i \in 1..Len(ops) : StageOfCmd(ops[i].cmd) = 1
          /\ (/\ pc[Runner] = "exited"
              /\ Len(ops) = 1
              /\ ops[1].ok) => failed = "setEnv" /\ exit[Runner] = 0

C18_Witness ==
    /\ ~manifestFile.ok
    /\ configFile.ok
    /\ failed = "setLayers"
    /\ Len(ops) = 1
    /\ dirs = {}


\* C19: a process whose stage failed ends with exit status 0; exit status 1
\* is the child usage error and nothing else; the parent path always ends
\* with exit status 0.  The program calls os.Exit nowhere else: the one
\* other status, 2, is the Go runtime ending the process on the index panic
\* at line 146, and it occurs in that case only.
C19_ExitStatus ==
    /\ \A p \in Procs :
          pc[p] = "exited" =>
              /\ exit[p] \in {0, 1, 2}
              /\ (p = Runner /\ failed # "") => exit[p] = 0
              /\ exit[p] = 1 =>
                    /\ p = Top /\ TopIsChild
                    /\ Len(osArgs[Top]) # 6
                    /\ ops = <<>> /\ failed = ""
              /\ exit[p] = 2 =>
                    /\ p = Runner /\ failed = ""
                    /\ manifestFile.ok
                    /\ \E n \in 1..Len(manifestFile.val) : ":" \notin Range(manifestFile.val[n])
              /\ (p = Top /\ ~TopIsChild) => exit[p] = 0
    /\ (TopIsChild /\ Len(osArgs[Top]) # 6 /\ pc[Top] = "exited") => exit[Top] = 1

C19_Witness ==
    /\ ~TopIsChild
    /\ failed = "mountBaseFs"
    /\ pc[Sub] = "exited" /\ exit[Sub] = 0
    /\ pc[Top] = "exited" /\ exit[Top] = 0


C20_Overlays == {i \in 1..Len(ops) : IsOverlay(ops[i].cmd)}
C20_Returned ==
    \/ pc[Runner] \in {"mountBaseFs", "mountVolume", "mountVolumeMkdirAll", "mountVolumeBind",
                       "chroot", "PivotRoot", "umount", "sh", "shWait"}
    \/ failed \in {"setLayers", "mountBaseFs", "mountVolume", "chroot", "sh"}
    \/ shell # "none"

\* C20: with a manifest that loads and whose digests all contain ':', the
\* overlay mount is never issued twice, and once setLayers has returned it
\* was issued exactly once, whatever the number of layers, with the lower
\* directories of the manifest; with no layers the lowerdir option is
\* empty; the only error setLayers then returns is the failure of that
\* mount.
C20_OverlayIssuedOncePerCall ==
    (/\ manifestFile.ok
     /\ \A n \in 1..Len(manifestFile.val) : ":" \in Range(manifestFile.val[n]))
        => LET n == Cardinality(C20_Overlays)
           IN
           /\ n <= 1
           /\ C20_Returned =>
                 /\ n = 1
                 /\ \A i \in C20_Overlays :
                       /\ ops[i].cmd = MountOverlayCmd(LowerDirsOf(manifestFile.val),
                                                       osArgs[Runner][5] \o <<"/", "upper">>,
                                                       osArgs[Runner][5] \o <<"/", "work">>,
                                                       osArgs[Runner][5] \o <<"/", "merged">>)
                       /\ manifestFile.val = <<>> =>
                             SubSeq(ops[i].cmd[6], 1, 2) = <<"lowerdir=", ",upperdir=">>
                       /\ (failed = "setLayers") = ~ops[i].ok
                       /\ failed = "setLayers" => i = Len(ops)

C20_Witness ==
    /\ manifestFile.ok
    /\ manifestFile.val = <<>>
    /\ Cardinality(C20_Overlays) = 1
    /\ \A i \in C20_Overlays : ops[i].ok
    /\ pc[Runner] = "mountBaseFs"

====
